---- MODULE Spec2Model ----
(***************************************************************************)
(* Model of examples/gemini_hook.py: get_memory_protocol runs the external *)
(* mimi executable and returns its decoded standard output (or "" on any   *)
(* failure); configure_session_hook appends that text to the               *)
(* 'system_instruction' entry of a session configuration dict.             *)
(*                                                                         *)
(* Texts are sequences of one-character strings.  The bytes a process      *)
(* writes are sequences over OutBytes; BAD stands for a byte that the      *)
(* locale encoding cannot decode (0xFF under UTF-8).                       *)
(***************************************************************************)
EXTENDS Naturals, Sequences, FiniteSets

VARIABLES
    session_config,  \* the dict handed to configure_session_hook (mutated in place)
    entry_config,    \* its value when the current hook call was entered
    original,        \* its value when the caller created it
    pc,              \* "caller" | "run" | "wait" | "inject" | "done" | "raised"
    proc,            \* the child process of subprocess.run
    protocol,        \* what get_memory_protocol returned to the hook
    propagated,      \* exception that escaped get_memory_protocol, or "none"
    fetched,         \* history: the text each get_memory_protocol call returned
    printed,         \* history: the lines written by print()
    hookCalls,       \* number of configure_session_hook calls started
    fetchCalls,      \* number of get_memory_protocol calls started
    spawns           \* number of child processes subprocess.run launched

vars == <<session_config, entry_config, original, pc, proc, protocol, propagated,
          fetched, printed, hookCalls, fetchCalls, spawns>>

----------------------------------------------------------------------------
(* Bounds *)

MaxLen == 2        \* longest generated instruction text
MaxOut == 2        \* longest generated process output
MaxCalls == 3      \* hook calls on one record in SpecSeq

----------------------------------------------------------------------------
(* Characters and texts *)

LF == "\n"
CR == "\r"
BAD == "xFF"

SEP == <<LF, LF>>

TextChars == {"a", LF}
OutBytes == {"a", LF, CR, BAD}

SeqsUpTo(S, n) == UNION {[1..k -> S] : k \in 0..n}

Assistant == <<"Y", "o", "u", " ", "a", "r", "e", " ", "a", " ", "h", "e", "l", "p", "f", "u", "l", " ", "A", "I", " ", "a", "s", "s", "i", "s", "t", "a", "n", "t", ".">>
Sentence == <<"R", "e", "m", "e", "m", "b", "e", "r", ":", " ", "b", "e", " ", "c", "o", "n", "c", "i", "s", "e", ".">>
GeminiModel == <<"g", "e", "m", "i", "n", "i", "-", "2", ".", "0", "-", "f", "l", "a", "s", "h">>

SI == "system_instruction"
Keys == {SI, "model"}

\* A dict with the given instruction entry (absent when hasSI is false) and,
\* when hasModel, the pass-through "model" entry.
MakeConfig(hasSI, text, hasModel) ==
    [k \in (IF hasSI THEN {SI} ELSE {}) \cup (IF hasModel THEN {"model"} ELSE {})
        |-> IF k = SI THEN text ELSE GeminiModel]

Instructions == SeqsUpTo(TextChars, MaxLen) \cup {Assistant}

Configs ==
    {MakeConfig(TRUE, t, m) : t \in Instructions, m \in BOOLEAN}
        \cup {MakeConfig(FALSE, <<>>, m) : m \in BOOLEAN}

SeqConfigs ==
    {MakeConfig(TRUE, t, m) : t \in {<<>>, <<"a">>}, m \in BOOLEAN}
        \cup {MakeConfig(FALSE, <<>>, m) : m \in BOOLEAN}

\* What the stub of the end-to-end scenario writes when it prints the sentence:
\* the sentence alone, or the sentence as a line.
SentenceLine == Sentence \o <<LF>>

Stdouts == SeqsUpTo(OutBytes, MaxOut) \cup {Sentence, SentenceLine}
Stderrs == {<<>>, <<"e">>, <<BAD>>}
SeqStdouts == {<<>>, <<"a">>, <<LF>>, <<"a", CR>>, <<BAD>>}
SeqStderrs == {<<>>}

ReturnCodes == {0, 1}
SpawnErrors == {"FileNotFoundError", "PermissionError", "OSError"}
ExceptionClasses == SpawnErrors \cup {"CalledProcessError", "UnicodeDecodeError"}

NoProc == [state |-> "none", error |-> "none", returncode |-> 0,
           stdout |-> <<>>, stderr |-> <<>>]

----------------------------------------------------------------------------
(* subprocess.run(cmd, capture_output=True, text=True, check=True) *)

\* text=True: the captured bytes are decoded with the locale encoding, errors
\* strict.
Decodable(bytes) == \A i \in 1..Len(bytes) : bytes[i] # BAD

\* text=True: universal newlines, "\r\n" and "\r" become "\n".
RECURSIVE TranslateNewlines(_)
TranslateNewlines(s) ==
    IF s = <<>> THEN <<>>
    ELSE IF Head(s) = CR
         THEN IF Len(s) >= 2 /\ s[2] = LF
              THEN <<LF>> \o TranslateNewlines(Tail(Tail(s)))
              ELSE <<LF>> \o TranslateNewlines(Tail(s))
         ELSE <<Head(s)>> \o TranslateNewlines(Tail(s))

RECURSIVE Strip(_)
Strip(s) ==
    IF s = <<>> THEN <<>>
    ELSE IF Head(s) \in {LF, CR, " "} THEN Strip(Tail(s))
    ELSE IF s[Len(s)] \in {LF, CR, " "} THEN Strip(SubSeq(s, 1, Len(s) - 1))
    ELSE s

CapturedTextStripped(p) == Strip(TranslateNewlines(p.stdout))

\* result.stdout
CapturedText(p) == TranslateNewlines(p.stdout)

CheckIgnored(rc) == FALSE

\* check=True: a non-zero return code raises CalledProcessError
CheckFails(rc) == rc # 0

\* The exception subprocess.run raises for the finished child, or "none".
Raised(p) ==
    IF p.state = "exec_failed" THEN p.error
    ELSE IF ~Decodable(p.stdout) \/ ~Decodable(p.stderr) THEN "UnicodeDecodeError"
    ELSE IF CheckFails(p.returncode) THEN "CalledProcessError"
    ELSE "none"

----------------------------------------------------------------------------
(* get_memory_protocol *)

CaughtOnlyOSError(e) == e \in SpawnErrors \cup {"CalledProcessError"}

\* except subprocess.CalledProcessError / except Exception
Caught(e) == e \in ExceptionClasses

HandlerMessage(e) ==
    IF e = "CalledProcessError" THEN "Error retrieving memory protocol"
    ELSE "Unexpected error"

PcRetryOnFailure(text) == IF text = <<>> THEN "run" ELSE "inject"

\* Every return of get_memory_protocol goes back to the hook.
PcAfterFetcher(text) == "inject"

----------------------------------------------------------------------------
(* configure_session_hook *)

GetNoDefault(cfg, key, default) ==
    IF key \in DOMAIN cfg THEN cfg[key] ELSE <<"N", "o", "n", "e">>

\* session_config.get(key, default)
Get(cfg, key, default) == IF key \in DOMAIN cfg THEN cfg[key] ELSE default

FormatNoSeparator(current, text) == current \o text

FormatSingleNewline(current, text) == current \o <<LF>> \o text

FormatPrepend(current, text) == text \o SEP \o current

\* f"{current_instruction}\n\n{protocol}"
Format(current, text) == current \o SEP \o text

SetItemFresh(cfg, key, value) == [k \in {key} |-> value]

\* session_config[key] = value
SetItem(cfg, key, value) ==
    [k \in DOMAIN cfg \cup {key} |-> IF k = key THEN value ELSE cfg[k]]

AlwaysTruthy(text) == TRUE

\* if protocol:
Truthy(text) == text # <<>>

----------------------------------------------------------------------------
(* Initial states *)

InitWith(configs) ==
    /\ session_config \in configs
    /\ entry_config = session_config
    /\ original = session_config
    /\ pc = "caller"
    /\ proc = NoProc
    /\ protocol = <<>>
    /\ propagated = "none"
    /\ fetched = <<>>
    /\ printed = <<>>
    /\ hookCalls = 0
    /\ fetchCalls = 0
    /\ spawns = 0

Init == InitWith(Configs)

InitSeq == InitWith(SeqConfigs)

----------------------------------------------------------------------------
(* Actions *)

\* The caller calls configure_session_hook(session_config); the hook prints
\* its banner and calls get_memory_protocol(), which enters subprocess.run.
HookBegin(limit) ==
    /\ pc = "caller"
    /\ hookCalls < limit
    /\ hookCalls' = hookCalls + 1
    /\ fetchCalls' = fetchCalls + 1
    /\ entry_config' = session_config
    /\ printed' = Append(printed, " [Hook] Retrieving mimi-memory protocol...")
    /\ proc' = NoProc
    /\ protocol' = <<>>
    /\ pc' = "run"
    /\ UNCHANGED <<session_config, original, propagated, fetched, spawns>>

\* subprocess.run launches the child: the executable starts, or the launch
\* fails with an OSError.
RunSpawn ==
    /\ pc = "run"
    /\ spawns' = spawns + 1
    /\ \/ proc' = [proc EXCEPT !.state = "running"]
       \/ \E e \in SpawnErrors :
            proc' = [proc EXCEPT !.state = "exec_failed", !.error = e]
    /\ pc' = "wait"
    /\ UNCHANGED <<session_config, entry_config, original, protocol, propagated,
                   fetched, printed, hookCalls, fetchCalls>>

\* The external process writes its output and exits.
ProcessExit(outs, errs) ==
    /\ pc = "wait"
    /\ proc.state = "running"
    /\ \E out \in outs, err \in errs, rc \in ReturnCodes :
         proc' = [proc EXCEPT !.state = "exited", !.returncode = rc,
                              !.stdout = out, !.stderr = err]
    /\ UNCHANGED <<session_config, entry_config, original, pc, protocol,
                   propagated, fetched, printed, hookCalls, fetchCalls, spawns>>

\* subprocess.run returns or raises; get_memory_protocol returns result.stdout,
\* or prints the error and returns "".
FetcherReturn ==
    /\ pc = "wait"
    /\ proc.state \in {"exited", "exec_failed"}
    /\ LET e == Raised(proc)
           text == IF e = "none" THEN CapturedText(proc) ELSE <<>>
       IN IF e = "none" \/ Caught(e)
          THEN /\ protocol' = text
               /\ fetched' = Append(fetched, text)
               /\ printed' = IF e = "none" THEN printed
                             ELSE Append(printed, HandlerMessage(e))
               /\ pc' = PcAfterFetcher(text)
               /\ UNCHANGED propagated
          ELSE /\ propagated' = e
               /\ pc' = "raised"
               /\ UNCHANGED <<protocol, fetched, printed>>
    /\ UNCHANGED <<session_config, entry_config, original, proc, hookCalls,
                   fetchCalls, spawns>>

\* The rest of configure_session_hook: inject the protocol or warn, return.
HookFinish ==
    /\ pc = "inject"
    /\ IF Truthy(protocol)
       THEN /\ printed' = Append(printed,
                 " [Hook] Protocol retrieved. Injecting into system instruction.")
            /\ session_config' =
                 SetItem(session_config, SI,
                         Format(Get(session_config, SI, <<>>), protocol))
       ELSE /\ printed' = Append(printed,
                 " [Hook] Warning: Failed to retrieve protocol.")
            /\ UNCHANGED session_config
    /\ pc' = "done"
    /\ UNCHANGED <<entry_config, original, proc, protocol, propagated, fetched,
                   hookCalls, fetchCalls, spawns>>

\* The caller, owning the returned record, goes on to call the hook again.
CallerContinues ==
    /\ pc = "done"
    /\ hookCalls < MaxCalls
    /\ pc' = "caller"
    /\ UNCHANGED <<session_config, entry_config, original, proc, protocol,
                   propagated, fetched, printed, hookCalls, fetchCalls, spawns>>

\* The script's own run: one hook call.
Next ==
    \/ HookBegin(1)
    \/ RunSpawn
    \/ ProcessExit(Stdouts, Stderrs)
    \/ FetcherReturn
    \/ HookFinish

Spec == Init /\ [][Next]_vars

\* A larger session-initialization flow: repeated hook calls on one record.
NextSeq ==
    \/ HookBegin(MaxCalls)
    \/ RunSpawn
    \/ ProcessExit(SeqStdouts, SeqStderrs)
    \/ FetcherReturn
    \/ HookFinish
    \/ CallerContinues

SpecSeq == InitSeq /\ [][NextSeq]_vars

\* return session_config
Returned == session_config

----------------------------------------------------------------------------
(* Properties *)

HasSI(cfg) == SI \in DOMAIN cfg

Finished == pc = "done"

FetcherDone == pc \in {"inject", "done"}

Exited == proc.state = "exited"

\* The invocation failed: the launch raised, or the process exited non-zero.
InvocationFailed ==
    \/ proc.state = "exec_failed"
    \/ Exited /\ proc.returncode # 0

Last(s) == s[Len(s)]

\* C1: with a non-empty instruction text `original` at entry and a non-empty
\* text T returned by the fetcher, the returned record's instruction field is
\* exactly original + "\n\n" + T.
C1_NonEmptyOriginalAppended ==
    (Finished /\ HasSI(entry_config) /\ entry_config[SI] # <<>> /\ protocol # <<>>)
        => /\ HasSI(Returned)
           /\ Returned[SI] = entry_config[SI] \o <<LF, LF>> \o protocol

C1_Witness ==
    /\ Finished /\ HasSI(entry_config) /\ entry_config[SI] = <<"a", LF>>
    /\ protocol = <<LF, "a">>

\* C2: with no instruction field at entry and a non-empty text T returned by
\* the fetcher, the hook creates the field with value exactly "\n\n" + T.
C2_AbsentFieldCreated ==
    (Finished /\ ~HasSI(entry_config) /\ protocol # <<>>)
        => /\ HasSI(Returned)
           /\ Returned[SI] = <<LF, LF>> \o protocol

C2_Witness ==
    Finished /\ ~HasSI(entry_config) /\ protocol = <<"a">> /\ HasSI(Returned)

\* C3: when the fetcher returns the empty string the returned record equals
\* the input record by value: same keys, same values, no field created.
C3_EmptyLeavesConfigUnchanged ==
    (Finished /\ protocol = <<>>)
        => /\ Returned = entry_config
           /\ DOMAIN Returned = DOMAIN entry_config

C3_Witness ==
    /\ Finished /\ protocol = <<>> /\ ~HasSI(entry_config)
    /\ "model" \in DOMAIN entry_config /\ InvocationFailed

\* C4: get_memory_protocol never propagates an error: after a non-zero exit
\* or any execution error it returns exactly the empty string, whatever the
\* failed process wrote to standard output.
C4_FetcherAbsorbsFailures ==
    /\ propagated = "none"
    /\ pc # "raised"
    /\ (FetcherDone /\ InvocationFailed) => protocol = <<>>

C4_Witness ==
    /\ FetcherDone /\ Exited /\ proc.returncode = 1
    /\ proc.stdout = <<"a", LF>> /\ protocol = <<>>

\* C5 as stated: after exit status zero the fetcher returns the bytes the
\* process wrote to standard output, unmodified, whatever they are.
C5_ReturnsStdoutUnmodified ==
    (FetcherDone /\ Exited /\ proc.returncode = 0) => protocol = proc.stdout

\* C5 amended: after exit status zero the fetcher returns the standard output
\* decoded as text with "\r\n" and "\r" turned into "\n" and nothing trimmed
\* (so output without "\r" comes back unchanged, the empty output included,
\* and standard error is not part of it); when the captured output cannot be
\* decoded it returns the empty string.
C5_ReturnsDecodedStdout ==
    (FetcherDone /\ Exited /\ proc.returncode = 0)
        => /\ (Decodable(proc.stdout) /\ Decodable(proc.stderr))
                => /\ Len(protocol) <= Len(proc.stdout)
                   /\ \A i \in 1..Len(protocol) : protocol[i] # CR
                   /\ (\A i \in 1..Len(proc.stdout) : proc.stdout[i] # CR)
                        => protocol = proc.stdout
                   /\ protocol = TranslateNewlines(proc.stdout)
           /\ (~Decodable(proc.stdout) \/ ~Decodable(proc.stderr))
                => protocol = <<>>

C5_Witness ==
    /\ FetcherDone /\ Exited /\ proc.returncode = 0
    /\ proc.stdout = <<"a", LF>> /\ proc.stderr = <<"e">> /\ protocol = <<"a", LF>>

\* The end-to-end scenario: the stub prints the sentence and exits 0, and the
\* input record is {"system_instruction": "You are a helpful AI assistant."}.
Scenario ==
    /\ Finished /\ Exited /\ proc.returncode = 0
    /\ proc.stdout \in {Sentence, SentenceLine} /\ proc.stderr = <<>>
    /\ entry_config = MakeConfig(TRUE, Assistant, FALSE)

ScenarioExpected == MakeConfig(TRUE, Assistant \o <<LF, LF>> \o Sentence, FALSE)

C7_OtherKeysUntouched ==
    /\ DOMAIN session_config \ {SI} = DOMAIN original \ {SI}
    /\ \A k \in DOMAIN original \ {SI} : session_config[k] = original[k]
    /\ Finished =>
         /\ DOMAIN Returned \ {SI} = DOMAIN entry_config \ {SI}
         /\ \A k \in DOMAIN entry_config \ {SI} : Returned[k] = entry_config[k]

C7_Witness ==
    /\ Finished /\ protocol # <<>> /\ "model" \in DOMAIN entry_config
    /\ Returned["model"] = GeminiModel /\ Returned # entry_config

\* C8: each hook call calls the fetcher once, each fetcher call launches one
\* process and returns only after it has ended, a failed invocation is not
\* retried, and the configuration is written only after the process ended.
C8_OneFetchOneProcess ==
    /\ fetchCalls = hookCalls
    /\ spawns <= fetchCalls
    /\ pc \in {"inject", "done", "caller"} => spawns = fetchCalls
    /\ pc = "run" => spawns = fetchCalls - 1
    /\ FetcherDone => proc.state \in {"exited", "exec_failed"}
    /\ Len(fetched) <= fetchCalls
    /\ FetcherDone => Len(fetched) = fetchCalls
    /\ session_config # entry_config => (pc \in {"done", "caller"} /\ Exited)

C8_Witness ==
    /\ Finished /\ hookCalls = 2 /\ fetchCalls = 2 /\ spawns = 2
    /\ InvocationFailed /\ fetched[1] = <<>>

\* What the calls so far must have appended: "\n\n" + T for each non-empty
\* fetcher result T, in call order.
RECURSIVE Appended(_)
Appended(ts) ==
    IF ts = <<>> THEN <<>>
    ELSE (IF Head(ts) = <<>> THEN <<>> ELSE <<LF, LF>> \o Head(ts)) \o Appended(Tail(ts))

OriginalText == IF HasSI(original) THEN original[SI] ELSE <<>>

CurrentText == IF HasSI(session_config) THEN session_config[SI] ELSE <<>>

IsPrefix(s, t) == Len(s) <= Len(t) /\ SubSeq(t, 1, Len(s)) = s

\* C9: after any sequence of hook calls on one record the instruction field is
\* the original content followed, in call order, by "\n\n" + T_i for every
\* non-empty fetcher result and by nothing for every empty one; the original
\* stays a prefix, and two successful calls append two protocol texts.
C9_FieldIsOriginalPlusAppends ==
    (pc \in {"caller", "done"})
        => /\ CurrentText = OriginalText \o Appended(fetched)
           /\ IsPrefix(OriginalText, CurrentText)
           /\ HasSI(session_config) <=>
                (HasSI(original) \/ \E i \in 1..Len(fetched) : fetched[i] # <<>>)
           /\ (Len(fetched) = 2 /\ fetched[1] # <<>> /\ fetched[2] # <<>>)
                => CurrentText = OriginalText \o <<LF, LF>> \o fetched[1]
                                     \o <<LF, LF>> \o fetched[2]

C9_Witness ==
    /\ Finished /\ Len(fetched) = 3
    /\ fetched[1] = <<"a">> /\ fetched[2] = <<>> /\ fetched[3] = <<"a">>
    /\ CurrentText = OriginalText \o <<LF, LF, "a", LF, LF, "a">>

Warning == " [Hook] Warning: Failed to retrieve protocol."

\* C10 as stated: the configuration is mutated if and only if the process
\* exited with status zero and its standard output is non-empty.
C10_MutatedIffZeroAndOutput ==
    Finished =>
        (Returned # entry_config
            <=> (Exited /\ proc.returncode = 0 /\ proc.stdout # <<>>))

\* C10 amended: an exit-zero run with empty standard output ends like a failed
\* run (failure branch, warning printed, configuration unchanged), and the
\* configuration is mutated if and only if the process exited with status
\* zero, its captured output could be decoded and its standard output is
\* non-empty.
C10_MutatedIffZeroAndDecodedOutput ==
    Finished =>
        /\ (Returned # entry_config
              <=> (/\ Exited /\ proc.returncode = 0
                   /\ Decodable(proc.stdout) /\ Decodable(proc.stderr)
                   /\ proc.stdout # <<>>))
        /\ (InvocationFailed \/ (Exited /\ proc.stdout = <<>>))
              => /\ Returned = entry_config
                 /\ Last(printed) = Warning
                 /\ protocol = <<>>

C10_Witness ==
    /\ Finished /\ Exited /\ proc.returncode = 0 /\ proc.stdout = <<>>
    /\ proc.stderr = <<>> /\ Returned = entry_config /\ Last(printed) = Warning

====
